---- MODULE Spec2Model ----
(***************************************************************************)
(* The overlay relay hub of overlay/server.js: three upstream WebSocket    *)
(* connections (EventSub push channel, IRC chat reader, IRC chat sender),  *)
(* their reconnect state, the set of overlay clients served on the local   *)
(* WebSocket server, the outbound chat sender and the shutdown handler.    *)
(*                                                                         *)
(* Node runs every handler to completion, so each handler is one action.   *)
(* The environment (Twitch, the overlay clients, the operating system)     *)
(* chooses which event comes next.                                         *)
(***************************************************************************)
EXTENDS Integers, Sequences, FiniteSets, TLC

\* ------------------------------------------------------------------ bounds
\* Overlay clients that may ever connect.
MaxSubs == 2
\* Inbound messages (upstream frames and overlay client messages) of a run
\* that serves overlay clients.
MaxMsgs == 1
\* Inbound messages of a run in which the upstream transports fail.
UpMsgs == 2
\* Transport faults the environment injects in one run: a socket closing or
\* erroring, a constructor throwing, a server-directed reconnect.
MaxFaults == 2
\* Transport faults of a run in which connecting keeps failing.
MaxFails == 4
\* Overlay clients and inbound messages of a run without transport faults
\* in which several events follow one another.
OrderSubs == 1
OrderMsgs == 2
\* The largest attempts value getReconnectDelay is called with on its own.
MaxAttempts == 10
\* The values Math.random() may return are the multiples of 1 / RandGrid.
RandGrid == 5
\* The overlay clients of a Set that overlayClients.delete is called on,
\* on its own.
RemoveSubs == 3
\* Transport faults of a run that serves overlay clients while the
\* upstream transports fail.
MixFaults == 1
\* The longest list in the tags of a chat line that parseIRCMessage is
\* called on, on its own: badge tokens, emote groups, ranges of a group.
MaxTags == 2

Names == {"twitch", "chat", "bot"}
Subs == 1..MaxSubs

\* The workloads the environment may put on the hub in one run: how many
\* overlay clients connect, how many inbound messages arrive, how many
\* transport faults happen, and whether the chat servers send keepalives
\* (PING) among the messages.
UpLoad == [subs |-> 0, msgs |-> UpMsgs, faults |-> MaxFaults, pings |-> FALSE]
HubLoad == [subs |-> MaxSubs, msgs |-> MaxMsgs, faults |-> 0, pings |-> FALSE]
Workloads == {UpLoad, HubLoad}

\* ws readyState values.
CONNECTING == "CONNECTING"
OPEN == "OPEN"
CLOSING == "CLOSING"
CLOSED == "CLOSED"

\* A message written to an overlay client: its type, where the hub took it
\* from, the number of the inbound message it was made from (0: made by the
\* hub itself) and, for the welcome, the twitchConnected flag it carries.
Msg(type, src, k, tc) == [type |-> type, src |-> src, k |-> k, tc |-> tc]
NoMsg == Msg("none", "none", 0, FALSE)

VARIABLES
    env,             \* the workload of this run
    phase,           \* "init": main has not run yet; "resolving": main awaits the
                     \* broadcaster id; "running": the servers are started;
                     \* "failed": process.exit(1); "exited": process.exit(0)
    hasClientId,     \* TWITCH_CLIENT_ID is set
    hasAccessToken,  \* TWITCH_ACCESS_TOKEN is set
    serving,         \* startLocalServer has run
    attempt,         \* the attempt getBroadcasterIdWithRetry is at (0: not in its loop)
    retryWait,       \* the delay in ms of its pending retry timer (0: none)
    hasBotToken,     \* BOT_ACCESS_TOKEN is set
    socks,           \* per identity, the WebSocket objects created so far (their readyState)
    chatSocket,      \* index into socks.chat, 0 for null
    botSocket,       \* index into socks.bot, 0 for null
    twitchConnected,
    chatConnected,
    botConnected,
    reconnectState,  \* per identity: attempts, and the timeout handle's condition
    untracked,       \* pending setTimeout(connectToTwitch, 1000) timers
    redirected,      \* the push-channel sockets that got a session_reconnect
    subWait,         \* subscribeToAllEvents calls awaiting their responses
    overlayClients,  \* the Set of overlay client sockets
    clientState,     \* per overlay client: "absent" (never connected) or its readyState
    sent,            \* per overlay client not closed yet, the payloads passed to its send()
    closeCode,       \* per overlay client, the code passed to its close() (0: never called)
    privmsg,         \* per chat identity, PRIVMSG lines written to its socket
    pong,            \* per chat identity, the sockets a PONG was written to, in order
    atShutdown,      \* overlayClients as gracefulShutdown found it
    nIn,             \* inbound messages handled so far
    nFault,          \* transport faults injected so far
    fails,           \* per identity, the constructor throws and socket closes since
                     \* a socket of it last opened
    calc             \* a call followed on its own (getReconnectDelay, or the delete
                     \* of the close handler): its arguments and its result

upVars == <<socks, chatSocket, botSocket, twitchConnected, chatConnected,
            botConnected, reconnectState, untracked, redirected, subWait>>
hubVars == <<overlayClients, clientState, sent, closeCode, atShutdown>>
boot == <<hasClientId, hasAccessToken, serving, attempt, retryWait>>
vars == <<env, phase, hasBotToken, boot, upVars, hubVars, privmsg, pong, nIn,
          nFault, fails, calc>>

\* ------------------------------------------------------- reconnect delay
MAX_RECONNECT_DELAY == 60000
BASE_RECONNECT_DELAY == 1000

\* Math.pow(2, n) for an integer n >= 0.
RECURSIVE Pow2(_)
Pow2(n) == IF n = 0 THEN 1 ELSE 2 * Pow2(n - 1)

\* Math.random() returns rnd / RandGrid for some rnd in 0..RandGrid-1. A
\* delay with its jitter is then a multiple of 1 / (4 * RandGrid) ms; delays
\* that carry jitter are counted in that unit.
DelayUnit == 4 * RandGrid

\* The jitter-free delay of getReconnectDelay, in ms.
delayBase(attempts) ==
    LET exp == BASE_RECONNECT_DELAY * Pow2(attempts)
    IN  IF exp < MAX_RECONNECT_DELAY THEN exp ELSE MAX_RECONNECT_DELAY

\* A delay that is not capped.
delayUncapped(attempts, rnd) ==
    LET delay == BASE_RECONNECT_DELAY * Pow2(attempts)
    IN  DelayUnit * delay + rnd * delay

\* getReconnectDelay(attempts) when Math.random() returns rnd / RandGrid:
\* delay + random * delay * 0.25, in units of 1 / DelayUnit ms.
getReconnectDelay(attempts, rnd) ==
    LET delay == delayBase(attempts)
    IN  DelayUnit * delay + rnd * delay

\* No call of getReconnectDelay is being followed.
NoCall == [attempts |-> 0, rnd |-> 0, out |-> 0]

\* ------------------------------------------------------- reconnect state

\* Variants of scheduleReconnect, each wrong in one way: a schedule that
\* counts an attempt for every identity, and a schedule that stores no timer.
scheduleCountingAll(rs, name) ==
    [n \in Names |-> [attempts |-> rs[n].attempts + 1,
                      timeout |-> IF n = name THEN "pending" ELSE rs[n].timeout,
                      delay |-> IF n = name THEN delayBase(rs[n].attempts)
                                ELSE rs[n].delay]]

scheduleWithoutTimer(rs, name) ==
    [rs EXCEPT ![name] = [attempts |-> @.attempts + 1, timeout |-> "null",
                          delay |-> 0]]

\* A schedule whose delay is the base delay whatever the attempts.
scheduleFlatDelay(rs, name) ==
    [rs EXCEPT ![name] = [attempts |-> @.attempts + 1, timeout |-> "pending",
                          delay |-> delayBase(0)]]

\* scheduleReconnect(name, connectFn): a pending timer is cleared, the delay
\* is computed from the current attempts, attempts is incremented and a new
\* timer is stored in state.timeout. `delay` is the jitter-free delay of
\* that timer in ms (0: no timer made since the last reset).
scheduleReconnect(rs, name) ==
    [rs EXCEPT ![name] = [attempts |-> @.attempts + 1, timeout |-> "pending",
                          delay |-> delayBase(@.attempts)]]

\* resetReconnectState(name): attempts = 0; a non-null timeout is cleared
\* and set to null.
resetReconnectState(rs, name) ==
    [rs EXCEPT ![name] = [attempts |-> 0, timeout |-> "null", delay |-> 0]]

\* ------------------------------------------------------ connect functions
\* The part of the state the connect functions write.
Up == [socks |-> socks, chatSocket |-> chatSocket, botSocket |-> botSocket,
       reconnectState |-> reconnectState]

SetUp(u) ==
    /\ socks' = u.socks
    /\ chatSocket' = u.chatSocket
    /\ botSocket' = u.botSocket
    /\ reconnectState' = u.reconnectState

\* connectToTwitch(): `fail` is the constructor throwing. The socket is kept
\* in a local variable only.
connectToTwitch(u, fail) ==
    IF fail
    THEN [u EXCEPT !.reconnectState = scheduleReconnect(@, "twitch")]
    ELSE [u EXCEPT !.socks["twitch"] = Append(@, CONNECTING)]

connectToChat(u, fail) ==
    IF fail
    THEN [u EXCEPT !.reconnectState = scheduleReconnect(@, "chat")]
    ELSE [u EXCEPT !.socks["chat"] = Append(@, CONNECTING),
                   !.chatSocket = Len(u.socks["chat"]) + 1]

\* A connectBot that does not look at the bot token.
connectBotAlways(u, fail) ==
    IF fail
    THEN [u EXCEPT !.reconnectState = scheduleReconnect(@, "bot")]
    ELSE [u EXCEPT !.socks["bot"] = Append(@, CONNECTING),
                   !.botSocket = Len(u.socks["bot"]) + 1]

\* connectBot() returns at once without a bot token.
connectBot(u, fail) ==
    IF ~hasBotToken THEN u
    ELSE IF fail
    THEN [u EXCEPT !.reconnectState = scheduleReconnect(@, "bot")]
    ELSE [u EXCEPT !.socks["bot"] = Append(@, CONNECTING),
                   !.botSocket = Len(u.socks["bot"]) + 1]

connectFn(u, name, fail) ==
    CASE name = "twitch" -> connectToTwitch(u, fail)
      [] name = "chat" -> connectToChat(u, fail)
      [] OTHER -> connectBot(u, fail)

\* How many of the given constructor calls throw.
Count(fs) == Cardinality({i \in DOMAIN fs : fs[i]})

\* --------------------------------------------------------------- initial
\* Module load (lines 40-53): no socket, no client, every reconnect state
\* {attempts: 0, timeout: null}. Whether a bot token is configured is fixed
\* for the run.
BaseInit(loads) ==
    /\ env \in loads
    /\ phase = "init"
    /\ hasBotToken \in BOOLEAN
    /\ hasClientId \in BOOLEAN
    /\ hasAccessToken \in BOOLEAN
    /\ serving = FALSE
    /\ attempt = 0
    /\ retryWait = 0
    /\ socks = [n \in Names |-> <<>>]
    /\ chatSocket = 0
    /\ botSocket = 0
    /\ twitchConnected = FALSE
    /\ chatConnected = FALSE
    /\ botConnected = FALSE
    /\ reconnectState =
          [n \in Names |-> [attempts |-> 0, timeout |-> "null", delay |-> 0]]
    /\ untracked = 0
    /\ redirected = {}
    /\ subWait = 0
    /\ overlayClients = {}
    /\ clientState = [s \in Subs |-> "absent"]
    /\ sent = [s \in Subs |-> <<>>]
    /\ closeCode = [s \in Subs |-> 0]
    /\ privmsg = [n \in {"chat", "bot"} |-> 0]
    /\ pong = [n \in {"chat", "bot"} |-> <<>>]
    /\ atShutdown = {}
    /\ nIn = 0
    /\ nFault = 0
    /\ fails = [n \in Names |-> 0]

InitWith(loads) == BaseInit(loads) /\ calc = NoCall

Init == InitWith(Workloads)

\* ---------------------------------------------------------------- main
\* getBroadcasterIdWithRetry(maxAttempts = 3), called with 3.
maxAttempts == 3

\* A check of the credentials that looks at the access token only.
credentialsTokenOnly == hasAccessToken

\* The check of main: CLIENT_ID and ACCESS_TOKEN are both set.
credentialsPresent == hasClientId /\ hasAccessToken

\* A retry delay that does not grow.
retryDelayFlat(k) == 1000

\* The delay before the retry that follows the k-th failed attempt.
retryDelay(k) == 1000 * k

\* main() up to its await: the signal handlers are registered; without the
\* credentials process.exit(1); else getBroadcasterIdWithRetry starts its
\* first attempt.
mainStart ==
    /\ phase = "init"
    /\ IF credentialsPresent
       THEN phase' = "resolving" /\ attempt' = 1
       ELSE phase' = "failed" /\ attempt' = attempt
    /\ UNCHANGED <<env, calc, fails, hasBotToken, hasClientId, hasAccessToken, serving,
                   retryWait, upVars, hubVars, privmsg, pong, nIn, nFault>>

\* The attempt under way fails (the fetch rejects, or no such user): after
\* the last attempt the error reaches main, which calls process.exit(1);
\* else a retry timer is set.
resolveFails ==
    /\ phase = "resolving"
    /\ retryWait = 0
    /\ IF attempt = maxAttempts
       THEN phase' = "failed" /\ retryWait' = retryWait
       ELSE phase' = phase /\ retryWait' = retryDelay(attempt)
    /\ UNCHANGED <<env, calc, fails, hasBotToken, hasClientId, hasAccessToken, serving,
                   attempt, upVars, hubVars, privmsg, pong, nIn, nFault>>

\* The retry timer fires: the next attempt starts.
retryTimer ==
    /\ phase = "resolving"
    /\ retryWait > 0
    /\ retryWait' = 0
    /\ attempt' = attempt + 1
    /\ UNCHANGED <<env, calc, fails, phase, hasBotToken, hasClientId, hasAccessToken,
                   serving, upVars, hubVars, privmsg, pong, nIn, nFault>>

\* main(), once the attempt under way has returned the broadcaster id:
\* startLocalServer() and the three connect functions run. f says which
\* constructors throw.
mainWith(f) ==
    /\ phase = "resolving"
    /\ retryWait = 0
    /\ attempt' = 0
    /\ serving' = TRUE
    /\ ~hasBotToken => ~f["bot"]
    /\ nFault + Count(f) <= env.faults
    /\ nFault' = nFault + Count(f)
    /\ SetUp(connectBot(connectToChat(connectToTwitch(Up, f["twitch"]),
                                      f["chat"]), f["bot"]))
    /\ phase' = "running"
    /\ fails' = [n \in Names |-> IF f[n] THEN fails[n] + 1 ELSE fails[n]]
    /\ UNCHANGED <<env, calc, hasClientId, hasAccessToken, retryWait, hasBotToken,
                   twitchConnected, chatConnected, botConnected, untracked,
                   redirected, subWait, hubVars, privmsg, pong, nIn>>

main == \E f \in [Names -> BOOLEAN] : mainWith(f)

\* ------------------------------------------------- upstream socket events
IsSock(name, i) == i \in DOMAIN socks[name]

\* ws.on('open') of connectToTwitch.
twitchOnOpen(i) ==
    /\ phase = "running"
    /\ IsSock("twitch", i) /\ socks["twitch"][i] = CONNECTING
    /\ socks' = [socks EXCEPT !["twitch"][i] = OPEN]
    /\ reconnectState' = resetReconnectState(reconnectState, "twitch")
    /\ fails' = [fails EXCEPT !["twitch"] = 0]
    /\ UNCHANGED <<env, calc, boot, phase, hasBotToken, chatSocket, botSocket, twitchConnected,
                   chatConnected, botConnected, untracked, redirected, subWait, hubVars,
                   privmsg, pong, nIn, nFault>>

\* ws.on('open') of connectToChat: reset, PASS/NICK/CAP/JOIN, chatConnected.
chatOnOpen(i) ==
    /\ phase = "running"
    /\ IsSock("chat", i) /\ socks["chat"][i] = CONNECTING
    /\ socks' = [socks EXCEPT !["chat"][i] = OPEN]
    /\ reconnectState' = resetReconnectState(reconnectState, "chat")
    /\ chatConnected' = TRUE
    /\ fails' = [fails EXCEPT !["chat"] = 0]
    /\ UNCHANGED <<env, calc, boot, phase, hasBotToken, chatSocket, botSocket, twitchConnected,
                   botConnected, untracked, redirected, subWait, hubVars, privmsg, pong, nIn,
                   nFault>>

\* ws.on('open') of connectBot: PASS/NICK/JOIN, botConnected, reset.
botOnOpen(i) ==
    /\ phase = "running"
    /\ IsSock("bot", i) /\ socks["bot"][i] = CONNECTING
    /\ socks' = [socks EXCEPT !["bot"][i] = OPEN]
    /\ botConnected' = TRUE
    /\ reconnectState' = resetReconnectState(reconnectState, "bot")
    /\ fails' = [fails EXCEPT !["bot"] = 0]
    /\ UNCHANGED <<env, calc, boot, phase, hasBotToken, chatSocket, botSocket, twitchConnected,
                   chatConnected, untracked, redirected, subWait, hubVars, privmsg, pong, nIn,
                   nFault>>

\* An error handler that gives the socket up at once and schedules the
\* reconnect itself.
onErrorReconnecting(name, i) ==
    /\ phase = "running"
    /\ IsSock(name, i) /\ socks[name][i] \in {CONNECTING, OPEN}
    /\ nFault < env.faults
    /\ nFault' = nFault + 1
    /\ socks' = [socks EXCEPT ![name][i] = CLOSING]
    /\ reconnectState' = scheduleReconnect(reconnectState, name)
    /\ UNCHANGED <<env, calc, boot, fails, phase, hasBotToken, chatSocket, botSocket, twitchConnected,
                   chatConnected, botConnected, untracked, redirected,
                   subWait, hubVars, privmsg, pong, nIn>>

\* The transport of a connecting or open socket fails: ws sets the socket
\* CLOSING and emits 'error', whose handlers only log; 'close' follows.
onError(name, i) ==
    /\ phase = "running"
    /\ IsSock(name, i) /\ socks[name][i] \in {CONNECTING, OPEN}
    /\ nFault < env.faults
    /\ nFault' = nFault + 1
    /\ socks' = [socks EXCEPT ![name][i] = CLOSING]
    /\ UNCHANGED <<env, calc, boot, fails, phase, hasBotToken, chatSocket, botSocket, twitchConnected,
                   chatConnected, botConnected, reconnectState, untracked, redirected,
                   subWait, hubVars, privmsg, pong, nIn>>

\* A socket that is not closed yet may close: at once when the peer or the
\* network ends it (a fault), or as the end of a close already under way.
Closes(name, i) ==
    /\ phase = "running"
    /\ IsSock(name, i) /\ socks[name][i] \in {CONNECTING, OPEN, CLOSING}
    /\ socks[name][i] # CLOSING => nFault < env.faults
    /\ nFault' = IF socks[name][i] = CLOSING THEN nFault ELSE nFault + 1
    /\ socks' = [socks EXCEPT ![name][i] = CLOSED]
    /\ fails' = [fails EXCEPT ![name] = @ + 1]

\* ws.on('close') of connectToTwitch.
twitchOnClose(i) ==
    /\ Closes("twitch", i)
    /\ twitchConnected' = FALSE
    /\ reconnectState' = scheduleReconnect(reconnectState, "twitch")
    /\ UNCHANGED <<env, calc, boot, phase, hasBotToken, chatSocket, botSocket, chatConnected,
                   botConnected, untracked, redirected, subWait, hubVars, privmsg, pong, nIn>>

\* ws.on('close') of connectToChat.
chatOnClose(i) ==
    /\ Closes("chat", i)
    /\ chatConnected' = FALSE
    /\ chatSocket' = 0
    /\ reconnectState' = scheduleReconnect(reconnectState, "chat")
    /\ UNCHANGED <<env, calc, boot, phase, hasBotToken, botSocket, twitchConnected,
                   botConnected, untracked, redirected, subWait, hubVars, privmsg, pong, nIn>>

\* ws.on('close') of connectBot.
botOnClose(i) ==
    /\ Closes("bot", i)
    /\ botConnected' = FALSE
    /\ botSocket' = 0
    /\ reconnectState' = scheduleReconnect(reconnectState, "bot")
    /\ UNCHANGED <<env, calc, boot, phase, hasBotToken, chatSocket, twitchConnected,
                   chatConnected, untracked, redirected, subWait, hubVars, privmsg, pong, nIn>>

\* The timer of scheduleReconnect fires: connectFn(). The handle stays in
\* state.timeout. The constructor may throw again.
reconnectTimerWith(name, fail) ==
    /\ phase = "running"
    /\ reconnectState[name].timeout = "pending"
    /\ fail => nFault < env.faults
    /\ nFault' = IF fail THEN nFault + 1 ELSE nFault
    /\ SetUp(connectFn([Up EXCEPT !.reconnectState[name].timeout = "fired"],
                       name, fail))
    /\ fails' = IF fail THEN [fails EXCEPT ![name] = @ + 1] ELSE fails
    /\ UNCHANGED <<env, calc, boot, phase, hasBotToken, twitchConnected, chatConnected,
                   botConnected, untracked, redirected, subWait, hubVars, privmsg, pong, nIn>>

\* The setTimeout(connectToTwitch, 1000) of the session_reconnect case fires.
untrackedTimerWith(fail) ==
    /\ phase = "running"
    /\ untracked > 0
    /\ untracked' = untracked - 1
    /\ UNCHANGED redirected
    /\ fail => nFault < env.faults
    /\ nFault' = IF fail THEN nFault + 1 ELSE nFault
    /\ SetUp(connectToTwitch(Up, fail))
    /\ fails' = IF fail THEN [fails EXCEPT !["twitch"] = @ + 1] ELSE fails
    /\ UNCHANGED <<env, calc, boot, phase, hasBotToken, twitchConnected, chatConnected,
                   botConnected, subWait, hubVars, privmsg, pong, nIn>>

reconnectTimer(name) == \E fail \in BOOLEAN : reconnectTimerWith(name, fail)

untrackedTimer == \E fail \in BOOLEAN : untrackedTimerWith(fail)

\* ------------------------------------------------------------ broadcast
\* A broadcast whose loop is ended by the first client that is not OPEN, as
\* a send() that throws would end it: only the OPEN clients numbered below
\* that client are written to.
broadcastEndedByClosed(event) ==
    /\ sent' = [s \in Subs |->
                  IF /\ s \in overlayClients
                     /\ \A r \in overlayClients : r <= s => clientState[r] = OPEN
                  THEN Append(sent[s], event) ELSE sent[s]]
    /\ UNCHANGED overlayClients

\* A broadcast that writes the event ahead of what was written before.
broadcastNewestFirst(event) ==
    /\ sent' = [s \in Subs |->
                  IF s \in overlayClients /\ clientState[s] = OPEN
                  THEN <<event>> \o sent[s] ELSE sent[s]]
    /\ UNCHANGED overlayClients

\* A broadcast whose loop visits the first client of the Set a second time
\* and never reaches the last one, as an iteration over a Set that is
\* changed under it might.
broadcastRevisiting(event) ==
    /\ sent' = [s \in Subs |->
                  IF s \in overlayClients /\ clientState[s] = OPEN
                  THEN IF \A r \in overlayClients : s <= r
                       THEN sent[s] \o <<event, event>>
                       ELSE IF \A r \in overlayClients : r <= s
                            THEN sent[s]
                            ELSE Append(sent[s], event)
                  ELSE sent[s]]
    /\ UNCHANGED overlayClients

\* A broadcast that writes to every client the server has or will have,
\* in the Set or not.
broadcastBeyondSet(event) ==
    /\ sent' = [s \in Subs |-> Append(sent[s], event)]
    /\ UNCHANGED overlayClients

\* A broadcast that also deletes from the Set the clients it finds not OPEN.
broadcastPruning(event) ==
    /\ sent' = [s \in Subs |->
                  IF s \in overlayClients /\ clientState[s] = OPEN
                  THEN Append(sent[s], event) ELSE sent[s]]
    /\ overlayClients' = {s \in overlayClients : clientState[s] = OPEN}

\* broadcastToOverlays(event): the payload goes to send() of every client of
\* the Set whose readyState is OPEN; the Set itself is not written. A send
\* on an OPEN ws socket returns; a transport failure shows later as the
\* socket's close.
broadcastToOverlays(event) ==
    /\ sent' = [s \in Subs |->
                  IF s \in overlayClients /\ clientState[s] = OPEN
                  THEN Append(sent[s], event) ELSE sent[s]]
    /\ UNCHANGED overlayClients

\* ------------------------------------------------------- upstream messages
SubscriptionTypes ==
    {"channel.follow", "channel.raid", "channel.subscribe", "channel.cheer"}

\* A switch whose default branch passes the notification on under the type
\* "unknown".
overlayEventPassingUnknown(type) ==
    CASE type = "channel.follow" -> "follow"
      [] type = "channel.raid" -> "raid"
      [] type = "channel.subscribe" -> "subscribe"
      [] OTHER -> "unknown"

\* A switch whose default branch makes a follow event too.
overlayEventDefaultFollow(type) ==
    CASE type = "channel.raid" -> "raid"
      [] type = "channel.subscribe" -> "subscribe"
      [] OTHER -> "follow"

\* The switch of handleTwitchEvent: the overlay event's type, "none" for
\* the default branch.
overlayEventType(type) ==
    CASE type = "channel.follow" -> "follow"
      [] type = "channel.raid" -> "raid"
      [] type = "channel.subscribe" -> "subscribe"
      [] OTHER -> "none"

\* handleTwitchEvent(payload) for the k-th inbound message.
handleTwitchEvent(type, k) ==
    IF overlayEventType(type) # "none"
    THEN broadcastToOverlays(Msg(overlayEventType(type), "twitch", k, FALSE))
    ELSE UNCHANGED <<sent, overlayClients>>

Receives(name, i) ==
    /\ phase = "running"
    /\ IsSock(name, i) /\ socks[name][i] = OPEN
    /\ nIn < env.msgs
    /\ nIn' = nIn + 1

\* case 'session_welcome': subscribeToAllEvents(sessionId) is awaited.
twitchWelcome(i) ==
    /\ Receives("twitch", i)
    /\ subWait' = subWait + 1
    /\ UNCHANGED <<env, calc, boot, fails, phase, hasBotToken, socks, chatSocket, botSocket,
                   twitchConnected, chatConnected, botConnected,
                   reconnectState, untracked, redirected, hubVars, privmsg, pong, nFault>>

\* A registration whose failure gives the connection up: a reconnect is
\* scheduled.
subscribeFailedReconnects(rs) == scheduleReconnect(rs, "twitch")

\* The branch success === 0 of subscribeToAllEvents, and the catch of the
\* message handler when a fetch rejects: log lines only.
subscribeFailed(rs) == rs

\* subscribeToAllEvents resumes after Promise.all: twitchConnected = true
\* when at least one subscription was accepted. A fetch that rejects is
\* caught by the message handler and changes nothing.
subscribeDoneWith(success) ==
    /\ phase = "running"
    /\ subWait > 0
    /\ subWait' = subWait - 1
    /\ twitchConnected' = IF success = 0 THEN twitchConnected ELSE TRUE
    /\ reconnectState' = IF success = 0 THEN subscribeFailed(reconnectState)
                         ELSE reconnectState
    /\ UNCHANGED <<env, calc, boot, fails, phase, hasBotToken, socks, chatSocket, botSocket,
                   chatConnected, botConnected, untracked, redirected,
                   hubVars, privmsg, pong, nIn, nFault>>

subscribeDone == \E success \in 0..1 : subscribeDoneWith(success)

\* case 'notification'.
twitchNotification(i, type) ==
    /\ Receives("twitch", i)
    /\ handleTwitchEvent(type, nIn + 1)
    /\ UNCHANGED <<env, calc, boot, fails, phase, hasBotToken, upVars, clientState, closeCode,
                   atShutdown, privmsg, pong, nFault>>

\* case 'session_reconnect': ws.close(), then setTimeout(connectToTwitch, 1000).
twitchSessionReconnect(i) ==
    /\ Receives("twitch", i)
    /\ nFault < env.faults
    /\ nFault' = nFault + 1
    /\ socks' = [socks EXCEPT !["twitch"][i] = CLOSING]
    /\ untracked' = untracked + 1
    /\ redirected' = redirected \cup {i}
    /\ UNCHANGED <<env, calc, boot, fails, phase, hasBotToken, chatSocket, botSocket, twitchConnected,
                   chatConnected, botConnected, reconnectState, subWait,
                   hubVars, privmsg, pong>>

\* The frames of the push channel that reach no case with an effect:
\* session_keepalive and revocation (a log line at most), "malformed" (a
\* frame JSON.parse rejects) and "bad_payload" (JSON whose payload lacks
\* what its case reads, so that the case throws before it does anything).
TwitchOthers == {"session_keepalive", "revocation", "malformed", "bad_payload"}

\* The frames on which the try block of the handler throws.
Throws(m) == m \in {"malformed", "bad_payload"}

\* A catch that gives the connection up: it closes the socket.
catchClosing(ss, i) == [ss EXCEPT !["twitch"][i] = CLOSING]

\* The catch of the push-channel message handler: console.error; the
\* sockets are left as they are.
catchTwitchMessage(ss, i) == ss

\* ws.on('message') of connectToTwitch for the frames of TwitchOthers.
twitchOther(i, m) ==
    /\ Receives("twitch", i)
    /\ socks' = IF Throws(m) THEN catchTwitchMessage(socks, i) ELSE socks
    /\ UNCHANGED <<env, calc, boot, fails, phase, hasBotToken, chatSocket, botSocket,
                   twitchConnected, chatConnected, botConnected, reconnectState,
                   untracked, redirected, subWait, hubVars, privmsg, pong, nFault>>

\* ---------------------------------------------------------- the chat parser
\* The lines a chat server may send, by what the handler and the parser
\* test: "PING" is a keepalive; "PING_PRIVMSG" starts with PING and holds a
\* PRIVMSG of the shape the parser's pattern matches further on; "PRIVMSG"
\* is a chat message of that shape; "PRIVMSG_noshape" includes PRIVMSG but
\* the pattern does not match; "NOTICE" is any other line.
ChatLines == {"PING", "PING_PRIVMSG", "PRIVMSG", "PRIVMSG_noshape", "NOTICE"}

\* message.startsWith('PING').
startsWithPING(line) == line \in {"PING", "PING_PRIVMSG"}

\* message.includes('PRIVMSG').
includesPRIVMSG(line) == line \in {"PING_PRIVMSG", "PRIVMSG", "PRIVMSG_noshape"}

\* raw.match(/:([^!]+)![^@]+@[^ ]+ PRIVMSG #[^ ]+ :(.+)/) is not null.
msgMatch(line) == line \in {"PING_PRIVMSG", "PRIVMSG"}

\* A chat line, as far as the handler and the parser look at it: its kind
\* (one of ChatLines), the tokens of its badges tag and the groups of
\* its emotes tag (<<>>: the tag is absent or empty).
Line(kind, badges, emotes) == [kind |-> kind, badges |-> badges, emotes |-> emotes]

BadgeKinds == {"broadcaster", "moderator", "vip", "subscriber"}

\* A badge token "name/version" is written as the lead of its name, which
\* is the one of the four kind names the name starts with or else the whole
\* name, and the tail, what follows the lead in the name.
BadgeTokens == [lead : BadgeKinds \cup {"founder"}, tail : {"", "-badge"}]

\* badge.startsWith(kind).
startsWith(badge, kind) == badge.lead = kind

\* What the forEach of the badges pushes for one token.
badgeOf(badge) ==
    IF startsWith(badge, "broadcaster") THEN <<"broadcaster">>
    ELSE IF startsWith(badge, "moderator") THEN <<"moderator">>
    ELSE IF startsWith(badge, "vip") THEN <<"vip">>
    ELSE IF startsWith(badge, "subscriber") THEN <<"subscriber">>
    ELSE <<>>

\* A badge parser that pushes the name of every token.
RECURSIVE parseBadgesKeepingAll(_)
parseBadgesKeepingAll(tokens) ==
    IF tokens = <<>> THEN <<>>
    ELSE <<Head(tokens).lead>> \o parseBadgesKeepingAll(Tail(tokens))

\* The badges array of parseIRCMessage.
RECURSIVE parseBadges(_)
parseBadges(tokens) ==
    IF tokens = <<>> THEN <<>>
    ELSE badgeOf(Head(tokens)) \o parseBadges(Tail(tokens))

\* The ranges "start-end" a group may hold, and the groups "id:ranges" of
\* an emotes tag; a group without positions has no ranges.
EmoteRanges == {[start |-> 0, end |-> 3], [start |-> 10, end |-> 13]}
EmoteIds == {"1", "2"}

\* The pushes of one group: one {id, start, end} per range, in order.
RECURSIVE pushGroup(_, _)
pushGroup(id, ranges) ==
    IF ranges = <<>> THEN <<>>
    ELSE <<[id |-> id, start |-> Head(ranges).start, end |-> Head(ranges).end]>>
         \o pushGroup(id, Tail(ranges))

\* The pushes of all groups, before the sort.
RECURSIVE pushGroups(_)
pushGroups(groups) ==
    IF groups = <<>> THEN <<>>
    ELSE pushGroup(Head(groups).id, Head(groups).ranges) \o pushGroups(Tail(groups))

\* e put into a sequence sorted by start descending, behind the entries
\* whose start is not smaller: Array.prototype.sort is stable.
RECURSIVE insertDesc(_, _)
insertDesc(sorted, e) ==
    IF sorted = <<>> THEN <<e>>
    ELSE IF Head(sorted).start >= e.start
         THEN <<Head(sorted)>> \o insertDesc(Tail(sorted), e)
         ELSE <<e>> \o sorted

\* emotes.sort((a, b) => b.start - a.start).
RECURSIVE sortDesc(_)
sortDesc(es) ==
    IF es = <<>> THEN <<>>
    ELSE insertDesc(sortDesc(SubSeq(es, 1, Len(es) - 1)), es[Len(es)])

\* An emote parser without the sort.
parseEmotesUnsorted(groups) == pushGroups(groups)

\* The emotes array of parseIRCMessage.
parseEmotes(groups) == sortDesc(pushGroups(groups))

Null == [type |-> "null"]

\* A parser that does not return when the pattern fails to match.
parseWithoutMatch(raw) ==
    [type |-> "chat", badges |-> parseBadges(raw.badges),
     emotes |-> parseEmotes(raw.emotes)]

\* parseIRCMessage(raw): null unless the PRIVMSG pattern matches, else the
\* chat event. Nothing in it throws; its catch returns null as well.
parseIRCMessage(raw) ==
    IF ~msgMatch(raw.kind) THEN Null
    ELSE [type |-> "chat", badges |-> parseBadges(raw.badges),
          emotes |-> parseEmotes(raw.emotes)]

\* ws.send('PONG :tmi.twitch.tv') on the socket ws of the handler.
pongOn(log, name, i) == [log EXCEPT ![name] = Append(@, i)]

\* The chat handler without the return after the PONG: a line that starts
\* with PING goes on to the PRIVMSG test.
chatRouteWithoutReturn(line) ==
    [pong |-> startsWithPING(line), parse |-> includesPRIVMSG(line)]

\* What the chat handler does with a line: a line that starts with PING is
\* answered with PONG and the handler returns; else a line that includes
\* PRIVMSG goes to parseIRCMessage.
chatLineRoute(line) ==
    [pong |-> startsWithPING(line),
     parse |-> ~startsWithPING(line) /\ includesPRIVMSG(line)]

\* ws.on('message') of connectToChat: PONG and parse as chatLineRoute says;
\* what the parser returns, unless null, is broadcast.
chatOnMessage(i, line) ==
    /\ Receives("chat", i)
    /\ startsWithPING(line) => env.pings
    /\ IF /\ chatLineRoute(line).parse
          /\ parseIRCMessage(Line(line, <<>>, <<>>)) # Null
       THEN broadcastToOverlays(Msg("chat", "chat", nIn + 1, FALSE))
       ELSE UNCHANGED <<sent, overlayClients>>
    /\ pong' = IF chatLineRoute(line).pong THEN pongOn(pong, "chat", i) ELSE pong
    /\ UNCHANGED <<env, calc, boot, fails, phase, hasBotToken, upVars, clientState, closeCode,
                   atShutdown, privmsg, nFault>>

\* A bot handler that passes chat lines on as the chat handler does.
botRouteParsing(line) ==
    [pong |-> startsWithPING(line), parse |-> includesPRIVMSG(line)]

\* What the bot handler does with a line: a line that starts with PING is
\* answered with PONG; no line goes to parseIRCMessage.
botLineRoute(line) == [pong |-> startsWithPING(line), parse |-> FALSE]

\* ws.on('message') of connectBot: PING is answered, an authentication
\* failure is logged; nothing is broadcast.
botOnMessage(i, line) ==
    /\ Receives("bot", i)
    /\ startsWithPING(line) => env.pings
    /\ IF /\ botLineRoute(line).parse
          /\ parseIRCMessage(Line(line, <<>>, <<>>)) # Null
       THEN broadcastToOverlays(Msg("chat", "bot", nIn + 1, FALSE))
       ELSE UNCHANGED <<sent, overlayClients>>
    /\ pong' = IF botLineRoute(line).pong THEN pongOn(pong, "bot", i) ELSE pong
    /\ UNCHANGED <<env, calc, boot, fails, phase, hasBotToken, upVars, clientState, closeCode,
                   atShutdown, privmsg, nFault>>

\* ------------------------------------------------------- outbound sender
ReadyState(name, h) == IF h = 0 THEN "null" ELSE socks[name][h]

\* A sender that takes the chat socket first and the bot socket only when
\* the chat socket is not OPEN.
sendPreferringChat ==
    LET useChat == ReadyState("chat", chatSocket) = OPEN
        name == IF useChat THEN "chat" ELSE "bot"
        h == IF useChat THEN chatSocket ELSE botSocket
    IN  IF h = 0 \/ ReadyState(name, h) # OPEN
        THEN [via |-> "none", ret |-> FALSE]
        ELSE [via |-> name, ret |-> TRUE]

\* sendToTwitchChat(message): the identity whose socket gets the PRIVMSG
\* ("none": no write) and the value returned.
sendToTwitchChat ==
    LET useBot == ReadyState("bot", botSocket) = OPEN
        name == IF useBot THEN "bot" ELSE "chat"
        h == IF useBot THEN botSocket ELSE chatSocket
    IN  IF h = 0 \/ ReadyState(name, h) # OPEN
        THEN [via |-> "none", ret |-> FALSE]
        ELSE [via |-> name, ret |-> TRUE]

\* --------------------------------------------------------- overlay clients
\* A welcome that always reports the push channel as not connected.
welcomeFlagless(tc) == Msg("connected", "hub", 0, FALSE)

\* The payload the connection handler sends: type 'connected' and the value
\* twitchConnected has when the handler runs.
welcome(tc) == Msg("connected", "hub", 0, tc)

\* wss.on('connection'): the client joins the Set and is sent the welcome.
\* Clients are numbered in the order they connect.
connection(s) ==
    /\ phase = "running"
    /\ s <= env.subs
    /\ clientState[s] = "absent"
    /\ \A r \in 1..(s - 1) : clientState[r] # "absent"
    /\ overlayClients' = overlayClients \cup {s}
    /\ clientState' = [clientState EXCEPT ![s] = OPEN]
    /\ sent' = [sent EXCEPT ![s] = Append(@, welcome(twitchConnected))]
    /\ UNCHANGED <<env, calc, boot, fails, phase, hasBotToken, upVars, closeCode, atShutdown, privmsg, pong,
                   nIn, nFault>>

\* What an overlay client may send: text JSON.parse rejects, or an object
\* with the given type ("": no type).
ClientMessages ==
    {[json |-> FALSE, type |-> ""]}
    \cup {[json |-> TRUE, type |-> t] :
            t \in {"", "send", "connected", "follow"}}

\* The client messages the handler does nothing with: text JSON.parse
\* rejects, an object without a type, an object of type 'connected'.
IgnoredMessages ==
    {m \in ClientMessages : ~m.json \/ m.type \in {"", "connected"}}

\* A handler whose test before the broadcast is message.type !== 'connected'
\* alone: a message without a type is broadcast too.
routeRelayingUntyped(m) ==
    IF ~m.json THEN [send |-> FALSE, broadcast |-> FALSE]
    ELSE IF m.type = "send" THEN [send |-> TRUE, broadcast |-> FALSE]
    ELSE [send |-> FALSE, broadcast |-> m.type # "connected"]

\* A handler without the return after sendToTwitchChat: the 'send' message
\* falls through to the broadcast.
routeWithoutReturn(m) ==
    IF ~m.json THEN [send |-> FALSE, broadcast |-> FALSE]
    ELSE [send |-> m.type = "send",
          broadcast |-> m.type # "" /\ m.type # "connected"]

\* A handler that passes every message that has a type and is not a 'send'
\* on to the broadcast, 'connected' included.
routeConnectedToo(m) ==
    IF ~m.json THEN [send |-> FALSE, broadcast |-> FALSE]
    ELSE IF m.type = "send" THEN [send |-> TRUE, broadcast |-> FALSE]
    ELSE [send |-> FALSE, broadcast |-> m.type # ""]

\* A handler that passes every typed message to sendToTwitchChat as well.
routeSendingTyped(m) ==
    IF ~m.json THEN [send |-> FALSE, broadcast |-> FALSE]
    ELSE IF m.type = "send" THEN [send |-> TRUE, broadcast |-> FALSE]
    ELSE [send |-> m.type # "",
          broadcast |-> m.type # "" /\ m.type # "connected"]

\* The calls the client message handler makes for m: a 'send' goes to
\* sendToTwitchChat and the handler returns; any other type but 'connected'
\* goes to broadcastToOverlays; the rest, and what throws, is ignored.
clientMessageRoute(m) ==
    IF ~m.json THEN [send |-> FALSE, broadcast |-> FALSE]
    ELSE IF m.type = "send" THEN [send |-> TRUE, broadcast |-> FALSE]
    ELSE [send |-> FALSE, broadcast |-> m.type # "" /\ m.type # "connected"]

\* ws.on('message') of an overlay client.
clientOnMessage(s, m) ==
    /\ phase = "running"
    /\ clientState[s] = OPEN
    /\ nIn < env.msgs
    /\ nIn' = nIn + 1
    /\ LET route == clientMessageRoute(m)
           r == IF route.send THEN sendToTwitchChat
                ELSE [via |-> "none", ret |-> FALSE]
           ev == IF route.broadcast THEN Msg(m.type, "client", nIn + 1, FALSE)
                 ELSE NoMsg
       IN  /\ privmsg' = IF r.via = "none" THEN privmsg
                         ELSE [privmsg EXCEPT ![r.via] = @ + 1]
           /\ IF route.broadcast THEN broadcastToOverlays(ev)
              ELSE UNCHANGED <<sent, overlayClients>>
    /\ UNCHANGED <<env, calc, boot, fails, phase, hasBotToken, upVars, clientState, closeCode,
                   atShutdown, pong, nFault>>

\* The client starts the closing handshake, or its transport fails: the
\* socket is CLOSING until its 'close' event.
clientClosing(s) ==
    /\ phase = "running"
    /\ clientState[s] = OPEN
    /\ clientState' = [clientState EXCEPT ![s] = CLOSING]
    /\ UNCHANGED <<env, calc, boot, fails, phase, hasBotToken, upVars, overlayClients, sent, closeCode,
                   atShutdown, privmsg, pong, nIn, nFault>>

\* A delete that empties the Set when it finds the client in it.
deleteClearing(set, s) == IF s \in set THEN {} ELSE set

\* overlayClients.delete(ws) of the close handler: Set.prototype.delete
\* removes ws when it is in the Set and does nothing else; it does not throw.
deleteClient(set, s) == set \ {s}

\* ws.on('close') of an overlay client: ws sets CLOSED and emits 'close' in
\* one step; the handler deletes the client from the Set. Nothing more is
\* written to a closed socket, and what was written to it is dropped here.
clientOnClose(s) ==
    /\ phase = "running"
    /\ clientState[s] \in {OPEN, CLOSING}
    /\ clientState' = [clientState EXCEPT ![s] = CLOSED]
    /\ overlayClients' = deleteClient(overlayClients, s)
    /\ sent' = [sent EXCEPT ![s] = <<>>]
    /\ UNCHANGED <<env, calc, boot, fails, phase, hasBotToken, upVars, closeCode, atShutdown,
                   privmsg, pong, nIn, nFault>>

\* ---------------------------------------------------------------- shutdown
\* The loop without its try/catch: the first close() that throws ends it,
\* the clients numbered above the thrower are not closed.
closeWithoutCatch(throwers) ==
    [called |-> {s \in overlayClients : \A r \in throwers : s <= r},
     done |-> throwers = {}]

\* The loop over overlayClients of gracefulShutdown: close(1000, ...) is
\* called on every client, a throw is caught and ignored. `called` are the
\* clients whose close() was called, `done` says the loop ran to its end.
closeOverlayClients(throwers) ==
    [called |-> overlayClients, done |-> TRUE]

\* gracefulShutdown(signal): clear the reconnect timeouts, close the overlay
\* clients and clear the Set, close chatSocket and botSocket when OPEN,
\* process.exit(0). `throwers` are the clients whose close() throws (at most
\* one in a run).
gracefulShutdown ==
    /\ phase \in {"resolving", "running"}
    /\ \E throwers \in {c \in SUBSET overlayClients : Cardinality(c) <= 1} :
        LET loop == closeOverlayClients(throwers)
        IN  /\ reconnectState' =
                 [n \in Names |->
                    IF reconnectState[n].timeout = "pending"
                    THEN [reconnectState[n] EXCEPT !.timeout = "cleared"]
                    ELSE reconnectState[n]]
            /\ closeCode' = [s \in Subs |->
                               IF s \in loop.called THEN 1000 ELSE closeCode[s]]
            /\ clientState' =
                 [s \in Subs |->
                    IF s \in loop.called \ throwers /\ clientState[s] = OPEN
                    THEN CLOSING ELSE clientState[s]]
            /\ atShutdown' = overlayClients
            /\ IF loop.done
               THEN /\ overlayClients' = {}
                    /\ socks' =
                         [socks EXCEPT
                            !["chat"] = IF ReadyState("chat", chatSocket) = OPEN
                                        THEN [@ EXCEPT ![chatSocket] = CLOSING]
                                        ELSE @,
                            !["bot"] = IF ReadyState("bot", botSocket) = OPEN
                                       THEN [@ EXCEPT ![botSocket] = CLOSING]
                                       ELSE @]
                    /\ phase' = "exited"
               ELSE UNCHANGED <<overlayClients, socks, phase>>
    /\ UNCHANGED <<env, calc, boot, fails, hasBotToken, chatSocket, botSocket, twitchConnected,
                   chatConnected, botConnected, untracked, redirected, subWait, sent,
                   privmsg, pong, nIn, nFault>>

\* ------------------------------------------------------------ the system
\* The steps of the upstream connections: connecting, the failures of the
\* transports and the reconnects that follow them, the server-directed
\* reconnect, and the inbound messages.
StartStep ==
    \/ mainStart
    \/ resolveFails
    \/ retryTimer

ConnectStep ==
    \/ main
    \/ \E i \in DOMAIN socks["twitch"] : twitchOnOpen(i)
    \/ \E i \in DOMAIN socks["chat"] : chatOnOpen(i)
    \/ \E i \in DOMAIN socks["bot"] : botOnOpen(i)

FailStep ==
    \/ \E n \in Names : \E i \in DOMAIN socks[n] : onError(n, i)
    \/ \E i \in DOMAIN socks["twitch"] : twitchOnClose(i)
    \/ \E i \in DOMAIN socks["chat"] : chatOnClose(i)
    \/ \E i \in DOMAIN socks["bot"] : botOnClose(i)
    \/ \E n \in Names : reconnectTimer(n)

RedirectStep ==
    \/ \E i \in DOMAIN socks["twitch"] : twitchSessionReconnect(i)
    \/ untrackedTimer

MessageStep ==
    \/ \E i \in DOMAIN socks["twitch"] : twitchWelcome(i)
    \/ subscribeDone
    \/ \E i \in DOMAIN socks["twitch"], t \in SubscriptionTypes : twitchNotification(i, t)
    \/ \E i \in DOMAIN socks["twitch"], m \in TwitchOthers :
          twitchOther(i, m)
    \/ \E i \in DOMAIN socks["chat"], line \in ChatLines : chatOnMessage(i, line)
    \/ \E i \in DOMAIN socks["bot"], line \in ChatLines : botOnMessage(i, line)

UpstreamStep == StartStep \/ ConnectStep \/ FailStep \/ RedirectStep \/ MessageStep

HubStep ==
    \/ \E s \in Subs : connection(s)
    \/ \E s \in Subs, m \in ClientMessages : clientOnMessage(s, m)
    \/ \E s \in Subs : clientClosing(s)
    \/ \E s \in Subs : clientOnClose(s)

Next == UpstreamStep \/ HubStep \/ gracefulShutdown

Spec == Init /\ [][Next]_vars

\* A run in which the upstream transports fail and no overlay client
\* connects. A timer of the event loop that is pending fires unless the
\* process exits first: the timer callbacks are weakly fair.
NextUp == UpstreamStep \/ gracefulShutdown

FairSpec ==
    /\ InitWith({UpLoad})
    /\ [][NextUp]_vars
    /\ \A n \in Names : WF_vars(reconnectTimer(n))
    /\ WF_vars(untrackedTimer)
    /\ WF_vars(mainStart)
    /\ WF_vars(resolveFails \/ main)
    /\ WF_vars(retryTimer)

\* A run in which connecting keeps failing: no message arrives, no overlay
\* client connects.
BackoffLoad == [subs |-> 0, msgs |-> 0, faults |-> MaxFails, pings |-> FALSE]

NextBackoff == StartStep \/ ConnectStep \/ FailStep \/ gracefulShutdown

BackoffSpec == InitWith({BackoffLoad}) /\ [][NextBackoff]_vars

\* A run without transport faults in which several inbound messages, the
\* keepalives of the chat servers among them, reach the hub and its overlay
\* clients.
OrderLoad == [subs |-> OrderSubs, msgs |-> OrderMsgs, faults |-> 0, pings |-> TRUE]

NextOrder == StartStep \/ ConnectStep \/ MessageStep \/ HubStep \/ gracefulShutdown

OrderSpec == InitWith({OrderLoad}) /\ [][NextOrder]_vars

\* A run without transport faults in which Twitch rejects every
\* registration: the push channel gets welcomes and follow notifications,
\* the overlay clients connect and only listen.
RejectStep ==
    \/ \E i \in DOMAIN socks["twitch"] : twitchWelcome(i)
    \/ subscribeDoneWith(0)
    \/ \E i \in DOMAIN socks["twitch"] : twitchNotification(i, "channel.follow")
    \/ \E s \in Subs : connection(s)

NextReject == StartStep \/ ConnectStep \/ RejectStep \/ gracefulShutdown

RejectSpec == InitWith({OrderLoad}) /\ [][NextReject]_vars

\* A run in which the channel's chat messages come in on the sockets of both
\* chat identities, both of which have joined the channel.
EchoStep ==
    \/ \E i \in DOMAIN socks["chat"] : chatOnMessage(i, "PRIVMSG")
    \/ \E i \in DOMAIN socks["bot"] : botOnMessage(i, "PRIVMSG")
    \/ \E s \in Subs : connection(s)

NextEcho == StartStep \/ ConnectStep \/ EchoStep \/ gracefulShutdown

EchoSpec == InitWith({OrderLoad}) /\ [][NextEcho]_vars

\* A run in which the overlay clients send nothing but messages the
\* handler ignores, and the upstream sockets are silent.
IgnoreStep ==
    \/ \E s \in Subs : connection(s)
    \/ \E s \in Subs, m \in IgnoredMessages : clientOnMessage(s, m)

NextIgnore == StartStep \/ ConnectStep \/ IgnoreStep \/ gracefulShutdown

IgnoreSpec == InitWith({HubLoad}) /\ [][NextIgnore]_vars

\* A run that serves overlay clients while the upstream transports fail:
\* the overlay clients connect, listen and send, and stay.
MixLoad == [subs |-> OrderSubs, msgs |-> MaxMsgs, faults |-> MixFaults,
            pings |-> FALSE]

NextMix ==
    \/ UpstreamStep
    \/ \E s \in Subs : connection(s)
    \/ \E s \in Subs, m \in ClientMessages : clientOnMessage(s, m)

MixSpec == InitWith({MixLoad}) /\ [][NextMix]_vars

\* getReconnectDelay on its own: the arguments are drawn at the start, the
\* one step is the call.
DelayInit ==
    /\ BaseInit({UpLoad})
    /\ calc \in [attempts : 0..MaxAttempts, rnd : 0..(RandGrid - 1), out : {0}]

delayCall ==
    /\ calc.out = 0
    /\ calc' = [calc EXCEPT !.out = getReconnectDelay(calc.attempts, calc.rnd)]
    /\ UNCHANGED <<env, phase, hasBotToken, boot, upVars, hubVars, privmsg, pong, nIn,
                   nFault, fails>>

DelaySpec == DelayInit /\ [][delayCall]_vars

\* The delete of the close handler on its own: a Set and a client are drawn
\* at the start; each step is the close handler's delete for that client,
\* run on what the step before left. n counts the deletes done.
RemoveInit ==
    /\ BaseInit({HubLoad})
    /\ calc \in {[set |-> S, s |-> s, n |-> 0, out |-> S] :
                    S \in SUBSET (1..RemoveSubs), s \in 1..RemoveSubs}

removeCall ==
    /\ calc.n < 2
    /\ calc' = [calc EXCEPT !.n = @ + 1, !.out = deleteClient(@, calc.s)]
    /\ UNCHANGED <<env, phase, hasBotToken, boot, upVars, hubVars, privmsg, pong, nIn,
                   nFault, fails>>

RemoveSpec == RemoveInit /\ [][removeCall]_vars

\* parseIRCMessage on its own: a line is drawn at the start, the one step
\* is the call. The lines are those of every kind without tags, the PRIVMSG
\* lines with every badges tag of up to MaxTags tokens, and the PRIVMSG
\* lines with every emotes tag of up to MaxTags groups of up to MaxTags
\* ranges.
SeqsUpTo(S, n) == UNION {[1..k -> S] : k \in 0..n}

EmoteGroups == [id : EmoteIds, ranges : SeqsUpTo(EmoteRanges, MaxTags)]

ParseLines ==
    {Line(k, <<>>, <<>>) : k \in ChatLines}
    \cup {Line("PRIVMSG", b, <<>>) : b \in SeqsUpTo(BadgeTokens, MaxTags)}
    \cup {Line("PRIVMSG", <<>>, g) : g \in SeqsUpTo(EmoteGroups, MaxTags)}

ParseInit ==
    /\ BaseInit({HubLoad})
    /\ hasClientId /\ hasAccessToken /\ hasBotToken
    /\ calc \in {[line |-> l, done |-> FALSE, out |-> Null] : l \in ParseLines}

parseCall ==
    /\ ~calc.done
    /\ calc' = [calc EXCEPT !.done = TRUE, !.out = parseIRCMessage(calc.line)]
    /\ UNCHANGED <<env, phase, hasBotToken, boot, upVars, hubVars, privmsg, pong, nIn,
                   nFault, fails>>

ParseSpec == ParseInit /\ [][parseCall]_vars

\* ============================================================ properties

\* The events a step may broadcast: every broadcast of a step carries the
\* number of the message that caused it.
NewEvents ==
    {Msg(ty, src, nIn + 1, FALSE) :
        ty \in {"follow", "raid", "subscribe", "chat"},
        src \in {"twitch", "chat", "client"}}

\* The step is a handler that calls broadcastToOverlays(ev).
Broadcasts(ev) ==
    /\ nIn' = nIn + 1
    /\ \/ \E ty \in SubscriptionTypes :
             /\ overlayEventType(ty) # "none"
             /\ ev = Msg(overlayEventType(ty), "twitch", nIn + 1, FALSE)
             /\ \E i \in DOMAIN socks["twitch"] : twitchNotification(i, ty)
       \/ /\ ev = Msg("chat", "chat", nIn + 1, FALSE)
          /\ \E i \in DOMAIN socks["chat"] : chatOnMessage(i, "PRIVMSG")
       \/ \E m \in ClientMessages :
             /\ clientMessageRoute(m).broadcast
             /\ ev = Msg(m.type, "client", nIn + 1, FALSE)
             /\ \E s \in Subs : clientOnMessage(s, m)

\* The step is the message handler of an overlay client given a 'send'.
SendStep == \E s \in Subs : clientOnMessage(s, [json |-> TRUE, type |-> "send"])

\* ---- C1
\* C1: a broadcast delivers the event to every subscriber that is in the
\* set and open when it runs, whatever the state of the other subscribers:
\* the event is the one message added to the subscriber's log, a subscriber
\* that is not open gets nothing, and the handler's step completes.
C1_BroadcastReachesEveryOpen ==
    [][\A ev \in NewEvents :
          Broadcasts(ev) =>
             \A s \in Subs :
                IF s \in overlayClients /\ clientState[s] = OPEN
                THEN /\ Len(sent'[s]) = Len(sent[s]) + 1
                     /\ sent'[s][Len(sent'[s])] = ev
                     /\ SubSeq(sent'[s], 1, Len(sent[s])) = sent[s]
                ELSE sent'[s] = sent[s]]_vars

\* An open subscriber holds an event that an earlier subscriber, still in
\* the set, does not hold: the broadcast ran while that one was closing.
C1_Witness ==
    \E r, s \in overlayClients :
       /\ r < s
       /\ clientState[r] = CLOSING
       /\ clientState[s] = OPEN
       /\ Len(sent[r]) = 1
       /\ Len(sent[s]) = 2
       /\ sent[s][2].type \in {"follow", "chat"}

\* ---- C2
\* C2 as the specification states it: when a broadcast returns, every
\* subscriber that was in the set and not open has left the set, and every
\* open subscriber is still in it.
C2_ClosedGoneAfterBroadcast ==
    [][\A ev \in NewEvents :
          Broadcasts(ev) =>
             \A s \in overlayClients :
                (s \in overlayClients') <=> (clientState[s] = OPEN)]_vars

\* C2, as the code has it: a broadcast leaves the subscriber set as it was
\* (open subscribers stay, a subscriber that is not open is skipped and
\* stays too); a subscriber leaves the set when its close event is
\* processed, so no closed subscriber is ever in the set.
C2_BroadcastKeepsSet ==
    /\ [][\A ev \in NewEvents :
             Broadcasts(ev) => overlayClients' = overlayClients]_vars
    /\ [][\A s \in Subs : clientOnClose(s) => s \notin overlayClients']_vars
    /\ [](\A s \in overlayClients : clientState[s] \in {OPEN, CLOSING})

\* A broadcast has run (the open subscriber holds its event) and the
\* closing subscriber it skipped is still in the set.
C2_Witness ==
    \E r, s \in overlayClients :
       /\ r # s
       /\ clientState[r] = CLOSING
       /\ clientState[s] = OPEN
       /\ Len(sent[s]) > Len(sent[r])
       /\ sent[s][Len(sent[s])].k = nIn
       /\ nIn > 0

\* ---- C3
\* C3: a client message of type "send" is never broadcast: the step that
\* handles it, whether or not the chat line goes out, leaves every
\* subscriber's log as it was, and no log ever holds a "send" message.
C3_SendNeverBroadcast ==
    /\ [][SendStep => sent' = sent]_vars
    /\ [](\A s \in Subs : \A j \in 1..Len(sent[s]) : sent[s][j].type # "send")

\* One message came in, it was a 'send' that went out as a chat line, and
\* the open subscribers hold nothing but their welcome.
C3_Witness ==
    /\ nIn = 1
    /\ privmsg["bot"] + privmsg["chat"] = 1
    /\ overlayClients # {}
    /\ \A s \in overlayClients : clientState[s] = OPEN /\ Len(sent[s]) = 1

\* ---- C4
\* C4: an outbound chat line goes to the bot socket when that socket exists
\* and is open, else to the broadcaster's chat socket when that one is
\* open, and to that socket only; with neither open nothing is written and
\* the result is false; the result is true exactly when a line was written.
C4_SendPicksBotThenChat ==
    /\ [](LET botOpen == botSocket # 0 /\ socks["bot"][botSocket] = OPEN
              chatOpen == chatSocket # 0 /\ socks["chat"][chatSocket] = OPEN
              r == sendToTwitchChat
          IN  /\ botOpen => r.via = "bot"
              /\ ~botOpen /\ chatOpen => r.via = "chat"
              /\ ~botOpen /\ ~chatOpen => r.via = "none"
              /\ r.ret = (r.via # "none"))
    /\ [][SendStep =>
             LET botOpen == botSocket # 0 /\ socks["bot"][botSocket] = OPEN
                 chatOpen == chatSocket # 0 /\ socks["chat"][chatSocket] = OPEN
             IN  /\ privmsg'["bot"] = privmsg["bot"] + (IF botOpen THEN 1 ELSE 0)
                 /\ privmsg'["chat"] =
                       privmsg["chat"] + (IF ~botOpen /\ chatOpen THEN 1 ELSE 0)]_vars

\* A line went out on the chat socket although a bot is configured: the bot
\* socket was not open yet.
C4_Witness ==
    /\ hasBotToken
    /\ botSocket # 0
    /\ privmsg["chat"] = 1
    /\ privmsg["bot"] = 0

\* ---- C5
\* The step is the open handler of a socket of identity n.
Opened(n) ==
    \E i \in DOMAIN socks[n] :
       \/ n = "twitch" /\ twitchOnOpen(i)
       \/ n = "chat" /\ chatOnOpen(i)
       \/ n = "bot" /\ botOnOpen(i)

\* The step calls scheduleReconnect for identity n: a close handler of n,
\* or a connect function of n whose socket constructor throws.
Scheduled(n) ==
    \/ \E i \in DOMAIN socks[n] :
          \/ n = "twitch" /\ twitchOnClose(i)
          \/ n = "chat" /\ chatOnClose(i)
          \/ n = "bot" /\ botOnClose(i)
    \/ \E f \in [Names -> BOOLEAN] : f[n] /\ mainWith(f)
    \/ reconnectTimerWith(n, TRUE)
    \/ n = "twitch" /\ untrackedTimerWith(TRUE)

\* C5: the attempts counter of an identity becomes 0 when a socket of that
\* identity opens, grows by exactly 1 when a reconnect is scheduled for that
\* identity, and is left alone by every other step, the opens and schedules
\* of the other identities included.
C5_AttemptsCounter ==
    [][\A n \in Names :
          LET a == reconnectState[n].attempts
              b == reconnectState'[n].attempts
          IN  /\ Opened(n) => b = 0
              /\ Scheduled(n) => b = a + 1
              /\ b # a => Opened(n) \/ Scheduled(n)]_vars

\* One identity has a reconnect scheduled and its counter at 1, and another
\* one is open again on its second socket with its counter back at 0.
C5_Witness ==
    \E n, m \in Names :
       /\ n # m
       /\ reconnectState[n].attempts = 1
       /\ reconnectState[n].timeout = "pending"
       /\ Len(socks[m]) = 2
       /\ socks[m][2] = OPEN
       /\ reconnectState[m].attempts = 0

\* ---- C6
\* connectBot returns at once without a bot token: the bot identity then
\* never has a connection to lose.
Started(n) == n # "bot" \/ hasBotToken

\* Identity n has a socket that is not closed.
Live(n) == \E i \in DOMAIN socks[n] : socks[n][i] # CLOSED

\* A timer that will call the connect function of n is pending.
ReconnectPending(n) ==
    \/ reconnectState[n].timeout = "pending"
    \/ n = "twitch" /\ untracked > 0

\* C6: whenever a connection of an identity closes or fails to be made, a
\* reconnect is scheduled in the same step; while the process runs, an
\* identity without a socket has a reconnect pending; and, timers being
\* fair and the faults of a run finitely many, an identity without a socket
\* gets a new connection attempt that makes a socket, unless the process
\* exits.
C6_ReconnectAlwaysScheduled ==
    /\ [][\A n \in Names :
             Scheduled(n) => reconnectState'[n].timeout = "pending"]_vars
    /\ [](\A n \in Names :
             phase = "running" /\ Started(n) /\ ~Live(n) => ReconnectPending(n))
    /\ \A n \in Names :
          (phase = "running" /\ Started(n) /\ ~Live(n))
          ~> (Live(n) \/ phase = "exited")

\* The only socket of an identity closed, its reconnect timer fired and the
\* connect function made a new socket.
C6_Witness ==
    \E n \in Names :
       /\ Len(socks[n]) = 2
       /\ socks[n][1] = CLOSED
       /\ socks[n][2] = CONNECTING
       /\ reconnectState[n].timeout = "fired"
       /\ reconnectState[n].attempts = 1

\* ---- C7
\* C7: the close of a push-channel socket that was closed on a
\* session_reconnect directive schedules no backoff timer and does not
\* count an attempt: the reconnect state of the push channel is as before.
C7_RedirectSkipsSchedule ==
    [][\A i \in redirected :
          twitchOnClose(i) =>
             reconnectState'["twitch"] = reconnectState["twitch"]]_vars

\* ---- C8
\* C8: once the shutdown has run, no pending timer is left that would start
\* a connection: neither a reconnect timer of an identity nor the timer of
\* a server-directed reconnect.
C8_NoTimerLeftAtExit ==
    phase = "exited" =>
       /\ untracked = 0
       /\ \A n \in Names : reconnectState[n].timeout # "pending"

\* ---- C9
\* C9: once the shutdown has run, every upstream socket of the three
\* identities has been closed: none is connecting or open.
C9_UpstreamClosedAtExit ==
    phase = "exited" =>
       \A n \in Names : \A i \in DOMAIN socks[n] :
          socks[n][i] \in {CLOSING, CLOSED}

\* ---- C10
\* C10: the shutdown calls close with code 1000 on every subscriber of the
\* set, also when the close of one of them throws, and leaves the set empty.
C10_SubscribersClosedAtShutdown ==
    /\ [][gracefulShutdown =>
             /\ overlayClients' = {}
             /\ atShutdown' = overlayClients
             /\ \A s \in overlayClients : closeCode'[s] = 1000]_vars
    /\ [](phase = "exited" =>
             /\ overlayClients = {}
             /\ \A s \in atShutdown : closeCode[s] = 1000)

\* The process exited with two subscribers in the set: the close of the
\* first threw and left it open, the second is closing, both got code 1000.
C10_Witness ==
    /\ phase = "exited"
    /\ atShutdown = {1, 2}
    /\ overlayClients = {}
    /\ clientState[1] = OPEN
    /\ clientState[2] = CLOSING
    /\ closeCode[1] = 1000
    /\ closeCode[2] = 1000

\* ---- C11
\* C11: for every attempt the delay returned is at least the base and at
\* most 1.25 times the cap, and positive; its jitter-free part is
\* min(base * 2^attempt, cap), which does not decrease with the attempt; the
\* jitter is at least 0 and less than a quarter of the jitter-free part.
C11_DelayWithinBounds ==
    calc.out # 0 =>
       LET a == calc.attempts
           free == getReconnectDelay(a, 0)
           expo == BASE_RECONNECT_DELAY * 2^a
       IN  /\ calc.out > 0
           /\ calc.out >= DelayUnit * BASE_RECONNECT_DELAY
           /\ 4 * calc.out <= 5 * DelayUnit * MAX_RECONNECT_DELAY
           /\ free = DelayUnit * (IF expo < MAX_RECONNECT_DELAY
                                  THEN expo ELSE MAX_RECONNECT_DELAY)
           /\ \A b \in 0..a : getReconnectDelay(b, 0) <= free
           /\ free <= calc.out
           /\ 4 * (calc.out - free) < free

\* A call with an attempt past the cap and with jitter: the result is above
\* the cap.
C11_Witness ==
    /\ calc.attempts >= 7
    /\ calc.rnd > 0
    /\ calc.out > DelayUnit * MAX_RECONNECT_DELAY

\* ---- C12
\* C12: an identity that has failed to connect 3 times in a row since its
\* counter was 0 (constructor throws or closes, no open in between) has
\* attempts = 3; the first reconnect scheduled in such a row has the base
\* delay, and the fourth has a jitter-free delay strictly greater.
C12_ThreeFailsThenLongerDelay ==
    /\ [](\A n \in Names : fails[n] = 3 => reconnectState[n].attempts = 3)
    /\ [][\A n \in Names :
             Scheduled(n) =>
                /\ fails[n] = 0 => reconnectState'[n].delay = delayBase(0)
                /\ fails[n] = 3 => reconnectState'[n].delay > delayBase(0)]_vars

\* An identity failed four times in a row: the fourth reconnect is pending
\* with a delay of 8000 ms.
C12_Witness ==
    \E n \in Names :
       /\ fails[n] = 4
       /\ reconnectState[n].attempts = 4
       /\ reconnectState[n].timeout = "pending"
       /\ reconnectState[n].delay = 8000

\* ---- C13
\* C13: whenever the connected flag of an identity is true (twitchConnected,
\* chatConnected, botConnected), the attempts counter of that identity is 0.
C13_ReadyMeansNoAttempts ==
    /\ twitchConnected => reconnectState["twitch"].attempts = 0
    /\ chatConnected => reconnectState["chat"].attempts = 0
    /\ botConnected => reconnectState["bot"].attempts = 0

\* ---- C14
\* C14: what a subscriber was sent from one upstream identity is in the
\* order of arrival: of two events of the same upstream source in its log,
\* the one written first came from the message that arrived first.
C14_UpstreamOrderKept ==
    \A s \in Subs : \A i, j \in 1..Len(sent[s]) :
       /\ i < j
       /\ sent[s][i].src \in {"twitch", "chat"}
       /\ sent[s][i].src = sent[s][j].src
       => sent[s][i].k < sent[s][j].k

\* An open subscriber was sent two events of the push channel.
C14_Witness ==
    \E s \in overlayClients :
       /\ clientState[s] = OPEN
       /\ Len(sent[s]) = 3
       /\ sent[s][2].src = "twitch"
       /\ sent[s][3].src = "twitch"
       /\ sent[s][2].k = 1
       /\ sent[s][3].k = 2

\* ---- C15
\* What subscriber s was sent after its welcome.
EventsOf(s) == SubSeq(sent[s], 2, Len(sent[s]))

GetsClientEvent(r, ty) == sent'[r] = Append(sent[r], Msg(ty, "client", nIn + 1, FALSE))

\* C16 as the specification states it: a message of subscriber S that is an
\* object with a type other than "send" is delivered to every open
\* subscriber other than S.
C16_AnyTypedMessageRelayed ==
    [][\A s \in Subs : \A m \in ClientMessages :
          m.json /\ m.type \notin {"", "send"} /\ clientOnMessage(s, m) =>
             \A r \in overlayClients \ {s} :
                clientState[r] = OPEN => GetsClientEvent(r, m.type)]_vars

\* C16, as the code has it: a message of subscriber S that is an object with
\* a type other than "send" and "connected" is delivered, as the event of
\* that type, to every open subscriber of the set, S included; a message of
\* type "connected", or without a type, is delivered to nobody.
C16_TestEventRelayed ==
    [][\A s \in Subs : \A m \in ClientMessages :
          m.json /\ m.type # "send" /\ clientOnMessage(s, m) =>
             IF m.type \in {"", "connected"}
             THEN sent' = sent
             ELSE \A r \in Subs :
                     IF r \in overlayClients /\ clientState[r] = OPEN
                     THEN GetsClientEvent(r, m.type)
                     ELSE sent'[r] = sent[r]]_vars

\* Two open subscribers hold the follow event that one of them sent.
C16_Witness ==
    /\ overlayClients = {1, 2}
    /\ \A r \in overlayClients :
          /\ clientState[r] = OPEN
          /\ Len(sent[r]) = 2
          /\ sent[r][2] = Msg("follow", "client", 1, FALSE)

\* No socket was ever opened: the local server does not listen, no overlay
\* client was accepted and no upstream WebSocket was constructed.
NoSocketOpened ==
    /\ ~serving
    /\ \A n \in Names : socks[n] = <<>>
    /\ chatSocket = 0 /\ botSocket = 0
    /\ \A s \in Subs : clientState[s] = "absent"

\* C17 as stated: when the client id, the access token or the bot access
\* token is absent, the process never gets past its start: it has not run
\* main yet or has exited with an error, and no socket was opened.
C17_AnyMissingCredentialFatal ==
    (~hasClientId \/ ~hasAccessToken \/ ~hasBotToken)
        => (phase \in {"init", "failed"} /\ NoSocketOpened)

\* C17, amended: when the client id or the access token is absent, the
\* process has not run main yet or has exited with an error, and no socket
\* was opened. When only the bot access token is absent the process is not
\* stopped for it: no chat sender socket is ever constructed and
\* botConnected stays false, whatever else the hub does.
C17_MissingMainCredentialFatal ==
    /\ (~hasClientId \/ ~hasAccessToken)
          => (phase \in {"init", "failed"} /\ NoSocketOpened)
    /\ ~hasBotToken
          => (socks["bot"] = <<>> /\ botSocket = 0 /\ ~botConnected)
    /\ phase = "failed" => NoSocketOpened

C17_Witness ==
    /\ phase = "failed"
    /\ hasClientId /\ ~hasAccessToken
    /\ NoSocketOpened

\* C18: account resolution makes at most 3 attempts; the k-th failure is
\* followed by a wait of 1000 * k ms for k < 3 and by the exit of the process
\* for k = 3; a process that exited so has opened no socket; once an attempt
\* has succeeded (the local server runs) no attempt is under way and no
\* retry is pending; and a resolution that has started always ends, in the
\* running hub or in an exit.
C18_ResolutionBoundedLinear ==
    /\ [](attempt \in 0..3)
    /\ [][resolveFails =>
             IF attempt < 3
             THEN /\ retryWait' = 1000 * attempt
                  /\ phase' = "resolving"
                  /\ attempt' = attempt
             ELSE /\ phase' = "failed"
                  /\ retryWait' = 0]_vars
    /\ [][retryTimer => (attempt' = attempt + 1 /\ retryWait' = 0)]_vars
    /\ []((phase = "failed" /\ attempt > 0) => (attempt = 3 /\ NoSocketOpened))
    /\ [](serving => (attempt = 0 /\ retryWait = 0))
    /\ (phase = "resolving") ~> (phase \in {"running", "failed", "exited"})

C18_Witness ==
    /\ phase = "failed"
    /\ hasClientId /\ hasAccessToken
    /\ attempt = 3
    /\ retryWait = 0
    /\ NoSocketOpened

\* The positions of the log of client s that hold a message of type
\* 'connected'.
AcksOf(s) == {i \in 1..Len(sent[s]) : sent[s][i].type = "connected"}

\* C19: the connection handler adds the connecting client to the Set and
\* writes to it, and to no other client, one message of type 'connected'
\* that carries twitchConnected as it is when the handler runs; and whatever
\* happens afterwards, a client that is in the Set, or on which something
\* was written, has exactly one message of type 'connected' in its log: the
\* first one, made by the hub and by no inbound message.
C19_OneAckPerClient ==
    /\ [][\A s \in Subs : connection(s) =>
             /\ s \notin overlayClients
             /\ overlayClients' = overlayClients \cup {s}
             /\ sent[s] = <<>>
             /\ sent'[s] = <<[type |-> "connected", src |-> "hub", k |-> 0,
                              tc |-> twitchConnected]>>
             /\ \A r \in Subs \ {s} : sent'[r] = sent[r]]_vars
    /\ [](\A s \in Subs :
             (s \in overlayClients \/ sent[s] # <<>>) =>
                 /\ AcksOf(s) = {1}
                 /\ sent[s][1].src = "hub" /\ sent[s][1].k = 0)

\* Two clients are connected, the second connected after the push channel
\* came up: their acks carry different flags.
C19_Witness ==
    /\ overlayClients = {1, 2}
    /\ AcksOf(1) = {1} /\ AcksOf(2) = {1}
    /\ ~sent[1][1].tc
    /\ sent[2][1].tc
    /\ twitchConnected

C21_NotificationOneVariant ==
    [][\A i \in DOMAIN socks["twitch"], t \in SubscriptionTypes :
          twitchNotification(i, t) =>
            LET known == t \in {"channel.follow", "channel.raid", "channel.subscribe"}
                variant == IF t = "channel.follow" THEN "follow"
                           ELSE IF t = "channel.raid" THEN "raid"
                           ELSE "subscribe"
                ev == [type |-> variant, src |-> "twitch", k |-> nIn + 1,
                       tc |-> FALSE]
            IN  /\ \A s \in Subs :
                      sent'[s] = IF known /\ s \in overlayClients
                                          /\ clientState[s] = OPEN
                                 THEN Append(sent[s], ev)
                                 ELSE sent[s]
                /\ socks' = socks
                /\ reconnectState' = reconnectState
                /\ untracked' = untracked
                /\ twitchConnected' = twitchConnected
                /\ phase' = "running"]_vars

\* The second message of the push channel was a raid notification and
\* reached the overlay client; the first message left nothing on it.
C21_Witness ==
    /\ nIn = 2
    /\ clientState[1] = OPEN
    /\ sent[1] = <<Msg("connected", "hub", 0, FALSE), Msg("raid", "twitch", 2, FALSE)>>
    /\ \E i \in DOMAIN socks["twitch"] : socks["twitch"][i] = OPEN

\* C22: a chat line the PRIVMSG pattern does not match, whatever its tags,
\* makes parseIRCMessage return null; the chat handler then writes nothing
\* to any overlay client, leaves every socket as it is (the chat socket
\* stays OPEN and stays the chatSocket), and leaves chatConnected and the
\* reconnect state unchanged.
C22_NoShapeNoBroadcast ==
    /\ [](\A b \in {<<>>} \cup {<<k>> : k \in BadgeTokens} :
             parseIRCMessage([kind |-> "PRIVMSG_noshape", badges |-> b,
                              emotes |-> <<>>]) = [type |-> "null"])
    /\ [][\A i \in DOMAIN socks["chat"] :
             chatOnMessage(i, "PRIVMSG_noshape") =>
                /\ sent' = sent
                /\ overlayClients' = overlayClients
                /\ socks' = socks
                /\ socks'["chat"][i] = OPEN
                /\ chatSocket' = chatSocket
                /\ chatConnected' = chatConnected
                /\ reconnectState' = reconnectState
                /\ phase' = "running"]_vars

\* The chat socket handled two lines and is still open with no reconnect
\* counted; the first left nothing on the overlay client, the second was a
\* chat message and reached it.
C22_Witness ==
    /\ nIn = 2
    /\ clientState[1] = OPEN
    /\ sent[1] = <<Msg("connected", "hub", 0, FALSE), Msg("chat", "chat", 2, FALSE)>>
    /\ chatSocket # 0 /\ socks["chat"][chatSocket] = OPEN
    /\ chatConnected
    /\ reconnectState["chat"].attempts = 0

\* How often the entry e is pushed for the emotes tag G: the ranges of G,
\* over all its groups, that have e's start and end in a group of e's id.
RangesLike(G, e) ==
    {p \in (DOMAIN G) \X (1..MaxTags) :
        /\ p[2] \in DOMAIN G[p[1]].ranges
        /\ G[p[1]].id = e.id
        /\ G[p[1]].ranges[p[2]].start = e.start
        /\ G[p[1]].ranges[p[2]].end = e.end}

\* C23: for a chat line with an emotes tag, the emotes of the parsed event
\* hold every {id, start, end} as often as the tag holds the range
\* start-end in a group of that id, and nothing else, and no entry has a
\* smaller start than an entry behind it.
C23_EmotesPerRangeDescending ==
    (calc.done /\ calc.line.emotes # <<>>) =>
        LET out == calc.out.emotes
            G == calc.line.emotes
        IN  /\ calc.out.type = "chat"
            /\ \A i \in DOMAIN out :
                  out[i] \in [id : EmoteIds, start : {0, 10}, end : {3, 13}]
            /\ \A e \in [id : EmoteIds, start : {0, 10}, end : {3, 13}] :
                  Cardinality({i \in DOMAIN out : out[i] = e})
                      = Cardinality(RangesLike(G, e))
            /\ \A i, j \in DOMAIN out : i < j => out[i].start >= out[j].start

\* The tag 1:0-3/2:10-13 was parsed: the entry of group 2 comes first.
C23_Witness ==
    /\ calc.done
    /\ calc.line.emotes = <<[id |-> "1", ranges |-> <<[start |-> 0, end |-> 3]>>],
                            [id |-> "2", ranges |-> <<[start |-> 10, end |-> 13]>>]>>
    /\ calc.out.emotes = <<[id |-> "2", start |-> 10, end |-> 13],
                           [id |-> "1", start |-> 0, end |-> 3]>>

\* How often kind k is among the parsed badges.
BadgeCount(k) ==
    Cardinality({i \in DOMAIN calc.out.badges : calc.out.badges[i] = k})

\* C24 as stated: the parsed badges are of the four kinds only; a token
\* whose name is one of the four kinds contributes that kind once, and a
\* token of any other name contributes nothing.
C24_OnlyExactNamesContribute ==
    (calc.done /\ calc.line.kind = "PRIVMSG") =>
        /\ calc.out.type = "chat"
        /\ \A i \in DOMAIN calc.out.badges : calc.out.badges[i] \in BadgeKinds
        /\ \A k \in BadgeKinds :
              BadgeCount(k) =
                 Cardinality({i \in DOMAIN calc.line.badges :
                                 /\ calc.line.badges[i].lead = k
                                 /\ calc.line.badges[i].tail = ""})

\* C24, amended: the parsed badges are of the four kinds only; a token
\* whose name starts with one of the four kinds contributes that kind once,
\* whatever follows in the name, and a token whose name starts with none
\* of them contributes nothing; the parser returns the chat event either
\* way.
C24_NamePrefixContributes ==
    (calc.done /\ calc.line.kind = "PRIVMSG") =>
        /\ calc.out.type = "chat"
        /\ \A i \in DOMAIN calc.out.badges :
              calc.out.badges[i] \in {"broadcaster", "moderator", "vip", "subscriber"}
        /\ \A k \in {"broadcaster", "moderator", "vip", "subscriber"} :
              BadgeCount(k) =
                 Cardinality({i \in DOMAIN calc.line.badges :
                                 calc.line.badges[i].lead = k})

\* The tag founder/0,subscriber/3 was parsed: only subscriber is kept.
C24_Witness ==
    /\ calc.done
    /\ calc.line.badges = <<[lead |-> "founder", tail |-> ""],
                            [lead |-> "subscriber", tail |-> ""]>>
    /\ calc.out.badges = <<"subscriber">>

\* C25: a frame that starts with PING, on the chat reader or on the chat
\* sender, makes the handler write one PONG on the socket the frame came in
\* on and nothing else: nothing is written to an overlay client, even when
\* the frame holds a well-shaped PRIVMSG further on, no PRIVMSG is written
\* upstream, and the sockets, chatSocket and botSocket, the connected flags,
\* the reconnect state and the pending timers are as before. A
\* session_keepalive of the push channel changes none of these either and
\* writes no PONG.
C25_KeepaliveAnsweredInPlace ==
    /\ [][\A i \in DOMAIN socks["chat"], line \in {"PING", "PING_PRIVMSG"} :
             chatOnMessage(i, line) =>
                /\ pong' = [pong EXCEPT !["chat"] = pong["chat"] \o <<i>>]
                /\ sent' = sent
                /\ privmsg' = privmsg
                /\ upVars' = upVars
                /\ hubVars' = hubVars]_vars
    /\ [][\A i \in DOMAIN socks["bot"] :
             botOnMessage(i, "PING") =>
                /\ pong' = [pong EXCEPT !["bot"] = pong["bot"] \o <<i>>]
                /\ sent' = sent
                /\ privmsg' = privmsg
                /\ upVars' = upVars
                /\ hubVars' = hubVars]_vars
    /\ [][\A i \in DOMAIN socks["twitch"] :
             twitchOther(i, "session_keepalive") =>
                /\ pong' = pong
                /\ sent' = sent
                /\ privmsg' = privmsg
                /\ upVars' = upVars
                /\ hubVars' = hubVars]_vars

\* Both chat identities have answered one keepalive each, on their open
\* sockets, and the overlay client has nothing but its welcome.
C25_Witness ==
    /\ nIn = 2
    /\ pong["chat"] = <<chatSocket>> /\ pong["bot"] = <<botSocket>>
    /\ chatSocket # 0 /\ socks["chat"][chatSocket] = OPEN
    /\ botSocket # 0 /\ socks["bot"][botSocket] = OPEN
    /\ chatConnected /\ botConnected
    /\ clientState[1] = OPEN
    /\ Len(sent[1]) = 1

\* C26: a push-channel frame that JSON.parse rejects, or whose case throws
\* on its payload, changes nothing but the count of handled messages:
\* nothing is written to an overlay client or upstream, the socket it came
\* in on stays OPEN, no socket changes, no reconnect timer is set, and the
\* connected flags and the reconnect state are as before. A chat line the
\* parser cannot decode has the same effect on the chat reader.
C26_UndecodableDropped ==
    /\ [][\A i \in DOMAIN socks["twitch"], m \in {"malformed", "bad_payload"} :
             twitchOther(i, m) =>
                /\ socks["twitch"][i] = OPEN /\ socks' = socks
                /\ sent' = sent
                /\ hubVars' = hubVars
                /\ reconnectState' = reconnectState
                /\ untracked' = untracked
                /\ <<twitchConnected', chatConnected', botConnected'>>
                      = <<twitchConnected, chatConnected, botConnected>>
                /\ <<privmsg', pong'>> = <<privmsg, pong>>
                /\ nIn' = nIn + 1
                /\ phase' = "running"]_vars
    /\ [][\A i \in DOMAIN socks["chat"] :
             chatOnMessage(i, "PRIVMSG_noshape") =>
                /\ socks["chat"][i] = OPEN /\ upVars' = upVars
                /\ hubVars' = hubVars
                /\ <<privmsg', pong'>> = <<privmsg, pong>>]_vars

\* The push channel handled two frames on one open socket with no
\* reconnect counted or pending; the first left nothing on the overlay
\* client, the second was a subscribe notification and reached it.
C26_Witness ==
    /\ nIn = 2
    /\ Len(socks["twitch"]) = 1 /\ socks["twitch"][1] = OPEN
    /\ reconnectState["twitch"].attempts = 0
    /\ reconnectState["twitch"].timeout # "pending"
    /\ clientState[1] = OPEN
    /\ sent[1] = <<Msg("connected", "hub", 0, FALSE),
                   Msg("subscribe", "twitch", 2, FALSE)>>

\* C27: when the registration that follows a welcome ends with no
\* subscription accepted, no socket changes its state, no reconnect is
\* counted or scheduled, no timer is set, and the flags, the overlay
\* clients and what was written to them are as before.
C27_RejectionKeepsConnection ==
    [][subscribeDoneWith(0) =>
          /\ socks' = socks
          /\ reconnectState' = reconnectState
          /\ untracked' = untracked
          /\ <<chatSocket', botSocket'>> = <<chatSocket, botSocket>>
          /\ <<twitchConnected', chatConnected', botConnected'>>
                = <<twitchConnected, chatConnected, botConnected>>
          /\ hubVars' = hubVars
          /\ phase' = "running"]_vars

\* The welcome came first and its registration was rejected; the follow
\* notification that came second on the same socket reached the overlay
\* client, and no reconnect is counted or pending.
C27_Witness ==
    /\ nIn = 2
    /\ subWait = 0
    /\ ~twitchConnected
    /\ socks["twitch"] = <<OPEN>>
    /\ reconnectState["twitch"].attempts = 0
    /\ reconnectState["twitch"].timeout # "pending"
    /\ sent[1] = <<Msg("connected", "hub", 0, FALSE),
                   Msg("follow", "twitch", 2, FALSE)>>

\* C28: twitchConnected becomes true only in a step that ends a
\* registration with a subscription accepted, and only while there is a
\* push-channel socket, not closed yet, for the welcome to have come in
\* on; chatConnected and botConnected become true
\* only in the open handler of a socket of their identity, the step that
\* sends the join line, which finds the socket CONNECTING and leaves it OPEN.
C28_ReadyOnlyAfterHandshake ==
    /\ [][(twitchConnected' /\ ~twitchConnected) =>
             /\ subscribeDoneWith(1)
             /\ \E i \in DOMAIN socks["twitch"] :
                   socks["twitch"][i] \in {OPEN, CLOSING}]_vars
    /\ [][(chatConnected' /\ ~chatConnected) =>
             \E i \in DOMAIN socks["chat"] :
                chatOnOpen(i) /\ socks'["chat"][i] = OPEN]_vars
    /\ [][(botConnected' /\ ~botConnected) =>
             \E i \in DOMAIN socks["bot"] :
                botOnOpen(i) /\ socks'["bot"][i] = OPEN]_vars

\* The part of C28 on the chat identities alone.
C28_ChatReadyAtOpen ==
    /\ [][(chatConnected' /\ ~chatConnected) =>
             \E i \in DOMAIN socks["chat"] :
                chatOnOpen(i) /\ socks'["chat"][i] = OPEN]_vars
    /\ [][(botConnected' /\ ~botConnected) =>
             \E i \in DOMAIN socks["bot"] :
                botOnOpen(i) /\ socks'["bot"][i] = OPEN]_vars

\* What the hub may write to an overlay client: its welcome, an event made
\* from a push-channel notification or from a chat message, or an event
\* an overlay client sent in to be relayed.
Presentable(m) ==
    \/ m.type = "connected" /\ m.src = "hub"
    \/ m.type \in {"follow", "raid", "subscribe"} /\ m.src = "twitch" /\ m.k > 0
    \/ m.type = "chat" /\ m.src = "chat" /\ m.k > 0
    \/ m.type \notin {"", "send", "connected", "none", "null"}
          /\ m.src = "client" /\ m.k > 0

\* The steps in which something goes wrong upstream or is repaired: a
\* transport error, a close, a reconnect timer firing, a server-directed
\* reconnect, a registration ending without a subscription, a frame that
\* cannot be decoded.
UpstreamTrouble ==
    \/ FailStep
    \/ RedirectStep
    \/ subscribeDoneWith(0)
    \/ \E i \in DOMAIN socks["twitch"], m \in {"malformed", "bad_payload"} :
          twitchOther(i, m)
    \/ \E i \in DOMAIN socks["chat"] : chatOnMessage(i, "PRIVMSG_noshape")

PrivmsgTotal(p) == p["chat"] + p["bot"]

\* C30: a step that writes a PRIVMSG to an upstream chat socket is the
\* handling of a 'send' message of an overlay client, and writes exactly
\* one PRIVMSG, on one identity; the handling of any other client message
\* writes none, as does every step of the upstream connections.
C30_PrivmsgOnlyOnSend ==
    /\ [][privmsg' # privmsg =>
             /\ \E s \in Subs :
                   clientOnMessage(s, [json |-> TRUE, type |-> "send"])
             /\ PrivmsgTotal(privmsg') = PrivmsgTotal(privmsg) + 1
             /\ \A n \in {"chat", "bot"} : privmsg'[n] >= privmsg[n]]_vars
    /\ [][\A s \in Subs, m \in ClientMessages :
             (m.type # "send" /\ clientOnMessage(s, m)) =>
                privmsg' = privmsg]_vars
    /\ [][UpstreamStep => privmsg' = privmsg]_vars

\* One 'send' of the overlay client was written once, on the chat sender's
\* socket, and nothing was broadcast for it.
C30_Witness ==
    /\ nIn = 1
    /\ privmsg = [chat |-> 0, bot |-> 1]
    /\ clientState[1] = OPEN
    /\ Len(sent[1]) = 1

\* C31: the timeout handle of every identity's reconnect state is null
\* unless a reconnect timer of that identity is pending: a handle whose
\* timer has fired is not kept.
C31_HandleOnlyWhilePending ==
    \A n \in Names : reconnectState[n].timeout \in {"null", "pending"}

\* The part of C31 on the open handlers: the step in which a socket of the
\* identity opens leaves the handle null.
C31_HandleNullAfterOpen ==
    [][\A n \in Names :
          (\E i \in DOMAIN socks[n] :
              socks[n][i] = CONNECTING /\ socks'[n][i] = OPEN)
          => reconnectState'[n].timeout = "null"]_vars

\* The sockets of an identity that are connecting or open.
LiveSocks(n) == {i \in DOMAIN socks[n] : socks[n][i] \in {CONNECTING, OPEN}}

\* C32: at no time are two push-channel sockets connecting or open: a
\* session_reconnect is followed by one replacement socket, not two.
C32_OnePushChannelSocket ==
    Cardinality(LiveSocks("twitch")) <= 1


\* ---- C33
\* C33: whenever twitchConnected is true there is a push-channel socket
\* that is open, or closing with its close handler still to run, the one
\* the welcome came in on: a close that comes while the registration is
\* awaited does not leave twitchConnected true.
C33_ReadyMeansSocketOpen ==
    twitchConnected =>
        \E i \in DOMAIN socks["twitch"] : socks["twitch"][i] \in {OPEN, CLOSING}

\* The same for the welcome of the hub: no overlay client is told that the
\* push channel is connected while no push-channel socket is open.
C33_AckNeverStale ==
    [][\A s \in Subs : connection(s) /\ sent'[s][1].tc =>
          \E i \in DOMAIN socks["twitch"] :
             socks["twitch"][i] \in {OPEN, CLOSING}]_vars

\* ---- C34
\* C34: of the chat reader and of the chat sender there is at most one
\* socket connecting or open; chatSocket and botSocket are null or refer to
\* the socket made last for their identity; and the close handler of a
\* socket finds the handle null or referring to that very socket, so it
\* never nulls the handle of a newer one.
C34_OneSocketPerChatIdentity ==
    /\ [](/\ Cardinality(LiveSocks("chat")) <= 1
          /\ Cardinality(LiveSocks("bot")) <= 1
          /\ chatSocket \in {0, Len(socks["chat"])}
          /\ botSocket \in {0, Len(socks["bot"])})
    /\ [][\A i \in DOMAIN socks["chat"] : chatOnClose(i) => chatSocket \in {0, i}]_vars
    /\ [][\A i \in DOMAIN socks["bot"] : botOnClose(i) => botSocket \in {0, i}]_vars

\* Both chat identities have lost a socket and are open again on a second
\* one, which the handle refers to.
C34_Witness ==
    /\ socks["chat"] = <<CLOSED, OPEN>> /\ chatSocket = 2
    /\ socks["bot"] = <<CLOSED, OPEN>> /\ botSocket = 2

\* ---- C35
\* C35: the message handler of the bot socket writes to no overlay client
\* and leaves the Set alone, whatever the line; a chat message of the
\* channel, which comes in on the chat socket and on the bot socket, gives
\* each open overlay client one chat event, written by the handler of the
\* chat socket; every chat event an overlay client has is from the chat
\* socket.
C35_BotLinesNotBroadcast ==
    /\ [][\A i \in DOMAIN socks["bot"] : botOnMessage(i, "PRIVMSG") =>
             sent' = sent /\ overlayClients' = overlayClients]_vars
    /\ [][\A i \in DOMAIN socks["chat"] : chatOnMessage(i, "PRIVMSG") =>
             \A s \in Subs :
                sent'[s] = IF s \in overlayClients /\ clientState[s] = OPEN
                           THEN Append(sent[s], Msg("chat", "chat", nIn + 1, FALSE))
                           ELSE sent[s]]_vars
    /\ [](\A s \in Subs : \A j \in 1..Len(sent[s]) :
             sent[s][j].type = "chat" => sent[s][j].src = "chat")

\* Both sockets are open and two lines came in after the overlay client
\* connected: the first on the chat socket, which gave the client its one
\* chat event, the second on the bot socket.
C35_Witness ==
    /\ socks["chat"] = <<OPEN>> /\ socks["bot"] = <<OPEN>>
    /\ nIn = 2
    /\ sent[1] = <<Msg("connected", "hub", 0, FALSE), Msg("chat", "chat", 1, FALSE)>>

\* ---- C36
\* C36: when no bot token is configured the chat sender makes no socket
\* and schedules no reconnect: botSocket is null, the reconnect state of the
\* bot has attempts 0 and no timer, and no PRIVMSG was written on a bot
\* socket, so every send that succeeded went out on the chat reader's socket.
C36_NoTokenNoSender ==
    ~hasBotToken =>
        /\ socks["bot"] = <<>> /\ botSocket = 0
        /\ reconnectState["bot"].attempts = 0
        /\ reconnectState["bot"].timeout = "null"
        /\ privmsg["bot"] = 0

\* Without a bot token, a 'send' of an overlay client was written on the
\* chat reader's socket.
C36_Witness ==
    /\ ~hasBotToken
    /\ privmsg = [chat |-> 1, bot |-> 0]
    /\ socks["chat"] = <<OPEN>> /\ chatSocket = 1
    /\ socks["bot"] = <<>>

\* ---- C37
\* C37: the first message written to an overlay client is its welcome;
\* the connection handler finds the client's log empty and leaves it with
\* the welcome alone, whatever was broadcast before the client connected;
\* and every other step that writes to a client writes to a client that is
\* in the Set and has its welcome, and appends one event, made of the
\* message handled in that very step.
C37_AckFirstNoReplay ==
    /\ [](\A s \in Subs : sent[s] # <<>> =>
             /\ sent[s][1].type = "connected"
             /\ \A j \in 2..Len(sent[s]) :
                   sent[s][j].type # "connected" /\ sent[s][j].k > 0)
    /\ [][\A s \in Subs : (sent'[s] # sent[s] /\ sent'[s] # <<>>) =>
             IF connection(s)
             THEN sent[s] = <<>> /\ Len(sent'[s]) = 1
             ELSE /\ s \in overlayClients
                  /\ sent[s] # <<>>
                  /\ Len(sent'[s]) = Len(sent[s]) + 1
                  /\ SubSeq(sent'[s], 1, Len(sent[s])) = sent[s]
                  /\ sent'[s][Len(sent'[s])].k = nIn + 1
                  /\ nIn' = nIn + 1]_vars

\* An event was broadcast to the first overlay client before the second
\* one connected: the second has its welcome and nothing else.
C37_Witness ==
    /\ overlayClients = {1, 2}
    /\ clientState[1] = OPEN /\ clientState[2] = OPEN
    /\ nIn = 1
    /\ Len(sent[1]) = 2 /\ sent[1][2].k = 1
    /\ sent[2] = <<Msg("connected", "hub", 0, twitchConnected)>>

\* ---- C38
\* C38: the handling of a client message that is not JSON, has no type or
\* has the type 'connected' writes to no overlay client and to no upstream
\* socket, and leaves the Set, the state of every client connection, the
\* sender's included, and the whole state of the upstream connections as
\* they were.
C38_IgnoredMessageNoEffect ==
    [][\A s \in Subs : \A m \in IgnoredMessages :
          clientOnMessage(s, m) =>
             /\ sent' = sent
             /\ privmsg' = privmsg /\ pong' = pong
             /\ overlayClients' = overlayClients
             /\ clientState' = clientState /\ closeCode' = closeCode
             /\ upVars' = upVars
             /\ phase' = phase]_vars

\* Both overlay clients are open, the chat socket is open, and the one
\* message that came in, from an overlay client, left no trace.
C38_Witness ==
    /\ nIn = 1
    /\ overlayClients = {1, 2}
    /\ clientState = <<OPEN, OPEN>>
    /\ \A s \in Subs : Len(sent[s]) = 1
    /\ privmsg = [chat |-> 0, bot |-> 0]
    /\ socks["chat"] = <<OPEN>>

====
